---- MODULE Spec2Model ----
(***************************************************************************)
(* Model of deploy.sh, the deployment orchestrator of the blog             *)
(* application: check_prerequisites, build_and_push_images,                *)
(* deploy_infrastructure, deploy_application, run_health_checks,           *)
(* get_deployment_info and the subcommand dispatch, run under `set -e`     *)
(* against an external control plane (CloudFormation, ECR, ECS) whose      *)
(* answers are nondeterministic.                                           *)
(*                                                                         *)
(* One action models one external command of the script together with the  *)
(* shell logic that follows it up to the next external command.  Every     *)
(* external command may be rejected (transport failure, throttling,        *)
(* expired credentials) whatever the state of the control plane.           *)
(***************************************************************************)
EXTENDS Integers, Sequences, FiniteSets

\* Invocations of the script.  Invocation 2 is idle in Spec and is the
\* second run in SpecTwice.
Procs == {1, 2}

\* Number of polls the stack waiter makes before it gives up (the AWS CLI
\* waiter polls 120 times; the model bounds it).
MaxWaitPolls == 2

VARIABLES
    cmd,          \* cmd[p]: the subcommand "${1:-deploy}" of invocation p
    pc,           \* pc[p]: the command invocation p executes next
    done,         \* done[p]: the stage functions that returned, in order
    exitCode,     \* exitCode[p]: exit status once pc[p] = "exited", else -1
    out,          \* out[p]: what p printed with print_error / print_warning / usage
    accountId,    \* accountId[p]: AWS_ACCOUNT_ID
    cfOut,        \* cfOut[p]: CLOUDFORMATION_ERROR, the captured update-stack output
    names,        \* names[p]: CLUSTER_NAME, BACKEND_SERVICE, FRONTEND_SERVICE, ALB_DNS
    polls,        \* polls[p]: polls made by the running stack waiter
    atStart,      \* atStart[p]: the stack (state, parameters) when p started
    hasAws,       \* `command -v aws` succeeds
    hasDocker,    \* `command -v docker` succeeds
    dbPassword,   \* DATABASE_PASSWORD
    repositoryPrefix, \* ECR_REPOSITORY_PREFIX
    stack,        \* control plane: state of the stack blog-app-stack
    stackParams,  \* control plane: parameters the stack's resources were built from
    pending,      \* control plane: parameters of the operation in progress
    repos,        \* control plane: the ECR repositories that exist
    images,       \* control plane: the image references pushed by the invocations
    services,     \* control plane: the tasks of the two ECS services
    log,          \* every external command issued so far, in order
    storedToken,  \* AuthContext: localStorage 'token' ("" when there is none)
    authHeader,   \* AuthContext: api.defaults.headers.common['Authorization']
    user,         \* AuthContext: the state `user` ("" for null)
    loading,      \* AuthContext: the state `loading`
    toasts,       \* AuthContext: the toasts shown so far
    mountPc,      \* AuthContext: where the effect of the first render is
    loginPc,      \* AuthContext: where the call of login is
    loginResult   \* AuthContext: what the last call of login resolved to

procVars == <<cmd, pc, done, exitCode, out, accountId, cfOut, names, polls, atStart>>
browserVars == <<storedToken, authHeader, user, loading, toasts, mountPc, loginPc, loginResult>>
\* What no command of deploy.sh changes: its environment, and the browser
\* that runs the frontend
envVars == <<hasAws, hasDocker, dbPassword, repositoryPrefix, browserVars>>
planeVars == <<stack, stackParams, pending, repos, images, services>>
\* What the frontend in the browser does not change
shellVars == <<procVars, hasAws, hasDocker, dbPassword, repositoryPrefix, planeVars, log>>
vars == <<procVars, envVars, planeVars, log>>

----------------------------------------------------------------------------
\* Configuration (deploy.sh lines 15-19) and the control plane's vocabulary

STACK_NAME == "blog-app-stack"
ENVIRONMENT == "production"
AWS_REGION == "us-east-1"

StackStates ==
    {"absent", "creating", "updating", "create-complete", "update-complete",
     "create-failed", "update-failed"}
Complete == {"create-complete", "update-complete"}
InProgress == {"creating", "updating"}
Failed == {"create-failed", "update-failed"}

\* A stack that finished creation once exposes the template's Outputs.
HasOutputs == {"create-complete", "updating", "update-complete", "update-failed"}

Subcommands == {"deploy", "build", "infrastructure", "application", "health", "info"}

\* Substrings of a command's output the script looks for, and the output of
\* failures that never reached the control plane.
NoUpdatesMarker == "No updates are to be performed"
ErrorWord == "error"
NotConnected == "Could not connect to the endpoint URL"

NoText == {}
NoNames == [cluster |-> "", backend |-> "", frontend |-> "", alb |-> ""]

\* "$AWS_ACCOUNT_ID.dkr.ecr.$AWS_REGION.amazonaws.com/<name>"
\* Repository names built from ECR_REPOSITORY_PREFIX
RepositoryUriPrefixed(acct, name) ==
    <<acct, "dkr.ecr", AWS_REGION, "amazonaws.com",
      repositoryPrefix \o (IF name = "blog-backend" THEN "-backend" ELSE "-frontend")>>

\* $AWS_ACCOUNT_ID.dkr.ecr.$AWS_REGION.amazonaws.com/<name>
RepositoryUri(acct, name) == <<acct, "dkr.ecr", AWS_REGION, "amazonaws.com", name>>

\* A parameter list with the two repository URIs exchanged
ParamSetSwapped(pw, acct) ==
    [Environment |-> ENVIRONMENT,
     DatabasePassword |-> pw,
     BackendRepositoryUri |-> RepositoryUri(acct, "blog-frontend"),
     FrontendRepositoryUri |-> RepositoryUri(acct, "blog-backend")]

\* The --parameters of create-stack and update-stack
ParamSet(pw, acct) ==
    [Environment |-> ENVIRONMENT,
     DatabasePassword |-> pw,
     BackendRepositoryUri |-> RepositoryUri(acct, "blog-backend"),
     FrontendRepositoryUri |-> RepositoryUri(acct, "blog-frontend")]

\* --capabilities of create-stack and update-stack
DeclaredCapabilities == {"CAPABILITY_IAM"}

\* What the template needs acknowledged: ECSTaskExecutionRole and ECSTaskRole
\* are AWS::IAM::Role resources with a RoleName.
TemplateRequires == {"CAPABILITY_NAMED_IAM"}

\* CAPABILITY_NAMED_IAM acknowledges what CAPABILITY_IAM does, not the reverse.
Acknowledged(declared) ==
    declared \cup (IF "CAPABILITY_NAMED_IAM" \in declared THEN {"CAPABILITY_IAM"} ELSE {})

CapabilitiesSufficient(declared) == TemplateRequires \subseteq Acknowledged(declared)

\* A request that leaves the two image references to the template
StackRequestWithoutImages(params) ==
    [parameters |-> [Environment |-> params.Environment,
                     DatabasePassword |-> params.DatabasePassword],
     capabilities |-> DeclaredCapabilities]

\* The operand of a create-stack or update-stack request
StackRequest(params) == [parameters |-> params, capabilities |-> DeclaredCapabilities]

\* The parameter sets a stack of the model can have been built from.
GoodPassword == "blogpassword"
OldPassword == "oldpassword"
AccountNumber == "587210148146"
ConvergedParams ==
    [Environment |-> "production",
     DatabasePassword |-> "blogpassword",
     BackendRepositoryUri |-> <<"587210148146", "dkr.ecr", "us-east-1", "amazonaws.com", "blog-backend">>,
     FrontendRepositoryUri |-> <<"587210148146", "dkr.ecr", "us-east-1", "amazonaws.com", "blog-frontend">>]
StaleParams == [ConvergedParams EXCEPT !.DatabasePassword = "oldpassword"]

----------------------------------------------------------------------------
\* The subcommand dispatch and main()

\* main() with the rollout called before the stack convergence
MainStagesRolloutFirst == <<"prereq", "build", "app", "infra", "health", "info">>

MainStages == <<"prereq", "build", "infra", "app", "health", "info">>

\* A dispatch whose `build` branch does not call check_prerequisites
StagesBuildUnchecked(c) ==
    CASE c = "deploy" -> MainStages
      [] c = "build" -> <<"build">>
      [] c = "infrastructure" -> <<"prereq", "infra">>
      [] c = "application" -> <<"prereq", "app">>
      [] c = "health" -> <<"prereq", "health">>
      [] c = "info" -> <<"prereq", "info">>
      [] OTHER -> << >>

\* A dispatch whose `health` branch rolls the services out first
StagesHealthRollsOut(c) ==
    CASE c = "deploy" -> MainStages
      [] c = "build" -> <<"prereq", "build">>
      [] c = "infrastructure" -> <<"prereq", "infra">>
      [] c = "application" -> <<"prereq", "app">>
      [] c = "health" -> <<"prereq", "app", "health">>
      [] c = "info" -> <<"prereq", "info">>
      [] OTHER -> << >>

Stages(c) ==
    CASE c = "deploy" -> MainStages
      [] c = "build" -> <<"prereq", "build">>
      [] c = "infrastructure" -> <<"prereq", "infra">>
      [] c = "application" -> <<"prereq", "app">>
      [] c = "health" -> <<"prereq", "health">>
      [] c = "info" -> <<"prereq", "info">>
      [] OTHER -> << >>

\* The first command of each stage function
EntryPc(stage) ==
    CASE stage = "prereq" -> "prereq"
      [] stage = "build" -> "repo_backend"
      [] stage = "infra" -> "describe_stack"
      [] stage = "app" -> "lookup_cluster"
      [] stage = "health" -> "lookup_alb"
      [] stage = "info" -> "info"

CurStage(p) == Stages(cmd[p])[Len(done[p]) + 1]

\* A record of one external command: who issued it, in which stage function,
\* the command and its operand, whether it exited with status 0, the state
\* of the stack when it was issued, the substrings of interest in its
\* output, and the HTTP status of a probe (0: none).
Entry(p, stage, call, arg, ok, text, http) ==
    [p |-> p, stage |-> stage, call |-> call, arg |-> arg, ok |-> ok,
     st |-> stack, text |-> text, http |-> http]

Called(p, stage, call, arg, ok) == Entry(p, stage, call, arg, ok, NoText, 0)

\* `exit n`, or the abort by `set -e` with the status of the failed command
Exit(p, code) ==
    /\ pc' = [pc EXCEPT ![p] = "exited"]
    /\ exitCode' = [exitCode EXCEPT ![p] = code]
    /\ UNCHANGED done

Goto(p, label) ==
    /\ pc' = [pc EXCEPT ![p] = label]
    /\ UNCHANGED <<exitCode, done>>

\* The stage function returns: the next stage of the subcommand starts, or
\* the script ends with status 0.
StageReturn(p) ==
    LET d == Append(done[p], CurStage(p))
        s == Stages(cmd[p])
    IN /\ done' = [done EXCEPT ![p] = d]
       /\ IF Len(d) < Len(s)
             THEN /\ pc' = [pc EXCEPT ![p] = EntryPc(s[Len(d) + 1])]
                  /\ UNCHANGED exitCode
             ELSE /\ pc' = [pc EXCEPT ![p] = "exited"]
                  /\ exitCode' = [exitCode EXCEPT ![p] = 0]

Say(p, msg) == out' = [out EXCEPT ![p] = @ \cup {msg}]

----------------------------------------------------------------------------
\* case "${1:-deploy}" in ... esac
Dispatch(p) ==
    /\ pc[p] = "start"
    /\ atStart' = [atStart EXCEPT ![p] = [st |-> stack, params |-> stackParams]]
    /\ IF cmd[p] \in Subcommands
          THEN /\ Goto(p, EntryPc(Stages(cmd[p])[1]))
               /\ UNCHANGED out
          ELSE /\ Say(p, "usage")
               /\ Exit(p, 1)
    /\ UNCHANGED <<cmd, accountId, cfOut, names, polls, envVars, planeVars, log>>

\* A test that never finds a variable empty
IsEmptyNever(value) == FALSE

\* [ -z "$VALUE" ]
IsEmpty(value) == value = ""

\* check_prerequisites
CheckPrerequisites(p) ==
    /\ pc[p] = "prereq"
    /\ UNCHANGED <<cmd, cfOut, names, polls, atStart, envVars, planeVars>>
    /\ IF ~hasAws
          THEN /\ Say(p, "error: AWS CLI is not installed")
               /\ Exit(p, 1)
               /\ UNCHANGED <<accountId, log>>
       ELSE IF ~hasDocker
          THEN /\ Say(p, "error: Docker is not installed")
               /\ Exit(p, 1)
               /\ UNCHANGED <<accountId, log>>
       ELSE IF IsEmpty(dbPassword)
          THEN /\ Say(p, "error: DATABASE_PASSWORD is not set")
               /\ Exit(p, 1)
               /\ UNCHANGED <<accountId, log>>
       ELSE IF IsEmpty(accountId[p])
          THEN \E answer \in {"rejected", "", AccountNumber} :
                 /\ log' = Append(log, Called(p, "prereq", "sts get-caller-identity",
                                              answer, answer # "rejected"))
                 /\ IF answer = "rejected"
                       THEN \* the assignment has the status of the command substitution
                            /\ Exit(p, 255)
                            /\ UNCHANGED <<accountId, out>>
                    ELSE IF IsEmpty(answer)
                       THEN /\ Say(p, "error: Could not retrieve AWS account ID")
                            /\ Exit(p, 1)
                            /\ UNCHANGED accountId
                    ELSE /\ accountId' = [accountId EXCEPT ![p] = answer]
                         /\ StageReturn(p)
                         /\ UNCHANGED out
       ELSE /\ StageReturn(p)
            /\ UNCHANGED <<accountId, out, log>>

----------------------------------------------------------------------------
\* build_and_push_images

\* A second existence check that names blog-backend again
RepoOfBackendTwice(label) ==
    IF label \in {"repo_backend", "repo_frontend", "build_backend", "push_backend"}
       THEN "blog-backend" ELSE "blog-frontend"

\* The repository each command of the stage names
RepoOf(label) ==
    IF label \in {"repo_backend", "build_backend", "push_backend"}
       THEN "blog-backend" ELSE "blog-frontend"

\* aws ecr describe-repositories ... || aws ecr create-repository ...
\* The list fails, and `set -e` aborts, only when create-repository fails.
EnsureRepository(p) ==
    /\ pc[p] \in {"repo_backend", "repo_frontend"}
    /\ UNCHANGED <<cmd, out, accountId, cfOut, names, polls, atStart, envVars,
                   stack, stackParams, pending, images, services>>
    /\ LET r == RepoOf(pc[p])
           next == IF pc[p] = "repo_backend" THEN "repo_frontend" ELSE "login"
       IN \E described \in (IF r \in repos THEN {TRUE} ELSE {}) \cup {FALSE} :
            IF described
               THEN /\ log' = Append(log, Called(p, "build", "describe-repositories", r, TRUE))
                    /\ Goto(p, next)
                    /\ UNCHANGED repos
               ELSE \E created \in (IF r \in repos THEN {} ELSE {TRUE}) \cup {FALSE} :
                      /\ log' = log \o
                            << Called(p, "build", "describe-repositories", r, FALSE),
                               Called(p, "build", "create-repository", r, created) >>
                      /\ IF created
                            THEN /\ repos' = repos \cup {r}
                                 /\ Goto(p, next)
                            ELSE /\ UNCHANGED repos
                                 /\ Exit(p, 255)

\* The status of a pipeline is the status of its last command (no pipefail).
PipelineStatus(first, last) == last

\* aws ecr get-login-password | docker login --password-stdin <registry>
\* docker login is refused when it reads no password.
EcrLogin(p) ==
    /\ pc[p] = "login"
    /\ UNCHANGED <<cmd, out, accountId, cfOut, names, polls, atStart, envVars, planeVars>>
    /\ \E token \in BOOLEAN :
       \E login \in (IF token THEN {TRUE} ELSE {}) \cup {FALSE} :
         /\ log' = log \o
               << Called(p, "build", "get-login-password", "", token),
                  Called(p, "build", "docker login", "", login) >>
         /\ IF PipelineStatus(token, login)
               THEN Goto(p, "build_backend")
               ELSE Exit(p, 1)

\* cd <dir>; docker build -t <name>:latest .; cd ..
BuildImage(p) ==
    /\ pc[p] \in {"build_backend", "build_frontend"}
    /\ UNCHANGED <<cmd, out, accountId, cfOut, names, polls, atStart, envVars, planeVars>>
    /\ \E built \in BOOLEAN :
         /\ log' = Append(log, Called(p, "build", "docker build", RepoOf(pc[p]), built))
         /\ IF built
               THEN Goto(p, IF pc[p] = "build_backend" THEN "build_frontend" ELSE "push_backend")
               ELSE Exit(p, 1)

\* docker tag <name>:latest <uri>:latest; docker push <uri>:latest
PushImage(p) ==
    /\ pc[p] \in {"push_backend", "push_frontend"}
    /\ UNCHANGED <<cmd, out, accountId, cfOut, names, polls, atStart, envVars,
                   stack, stackParams, pending, repos, services>>
    /\ LET r == RepoOf(pc[p])
           ref == <<RepositoryUri(accountId[p], r), "latest">>
       IN \E pushed \in (IF r \in repos THEN {TRUE} ELSE {}) \cup {FALSE} :
            /\ log' = Append(log, Called(p, "build", "docker push", ref, pushed))
            /\ IF pushed
                  THEN /\ images' = images \cup {ref}
                       /\ IF pc[p] = "push_backend"
                             THEN Goto(p, "push_frontend")
                             ELSE StageReturn(p)
                  ELSE /\ UNCHANGED images
                       /\ Exit(p, 1)

----------------------------------------------------------------------------
\* deploy_infrastructure

Contains(text, word) == word \in text

\* An existence test with its branches exchanged
StackExistsInverted(described) == ~described

\* `if aws cloudformation describe-stacks ... &> /dev/null`: the stack is
\* taken to exist exactly when the command exits with status 0.
StackExists(described) == described

\* describe-stacks of line 120: succeeds only for a stack the control plane
\* knows, and may be rejected whatever the stack is.
DescribeStack(p) ==
    /\ pc[p] = "describe_stack"
    /\ UNCHANGED <<cmd, out, accountId, cfOut, names, polls, atStart, envVars, planeVars>>
    /\ \E described \in (IF stack # "absent" THEN {TRUE} ELSE {}) \cup {FALSE} :
         /\ log' = Append(log, Called(p, "infra", "describe-stacks", STACK_NAME, described))
         /\ Goto(p, IF StackExists(described) THEN "update_stack" ELSE "create_stack")

\* The answers update-stack can get: accepted (status 0, the stack id),
\* the ValidationError that carries the no-updates marker, another error of
\* the API ("An error occurred (...) when calling the UpdateStack
\* operation"), or a failure of the client before any answer, whose text
\* has neither the marker nor the word "error".  `|| echo $?` appends the
\* status to the captured text of a failure.
Accepted == [ok |-> TRUE, text |-> {"StackId"}]
NoUpdates == [ok |-> FALSE, text |-> {ErrorWord, NoUpdatesMarker, "254"}]
ApiError == [ok |-> FALSE, text |-> {ErrorWord, "254"}]
ClientError == [ok |-> FALSE, text |-> {NotConnected, "255"}]

\* The rejection of a request that would change resources the declared
\* capabilities do not acknowledge.  A control plane that does not enforce
\* the acknowledgement (a test double) accepts the request all the same.
CapabilityError ==
    [ok |-> FALSE, text |-> {ErrorWord, "InsufficientCapabilitiesException", "254"}]

CapabilityAnswers(request) ==
    IF CapabilitiesSufficient(request.capabilities) THEN {} ELSE {CapabilityError}

UpdateAnswers(st, request, applied) ==
    {ClientError} \cup
    (IF st \in Complete
        THEN (IF request.parameters = applied
                 THEN {NoUpdates}
                 ELSE {Accepted} \cup CapabilityAnswers(request))
        ELSE {ApiError})

\* create-stack is accepted only for a stack name the control plane does
\* not know.
CreateAnswers(st, request) ==
    {ClientError} \cup
    (IF st = "absent"
        THEN {Accepted} \cup CapabilityAnswers(request)
        ELSE {ApiError})

\* A classification that looks for "error" before the no-updates marker
ClassifyUpdateErrorFirst(text) ==
    IF Contains(text, ErrorWord) THEN "fail"
    ELSE IF Contains(text, NoUpdatesMarker) THEN "nochange"
    ELSE "wait"

\* A classification that takes every answer without "error" for done
ClassifyUpdateNoWait(text) ==
    IF Contains(text, NoUpdatesMarker) THEN "nochange"
    ELSE IF Contains(text, ErrorWord) THEN "fail"
    ELSE "nochange"

\* The if / elif / else over $CLOUDFORMATION_ERROR (lines 134-143)
ClassifyUpdate(text) ==
    IF Contains(text, NoUpdatesMarker) THEN "nochange"
    ELSE IF Contains(text, ErrorWord) THEN "fail"
    ELSE "wait"

\* CLOUDFORMATION_ERROR=$(aws cloudformation update-stack ... 2>&1 || echo $?)
UpdateStack(p) ==
    /\ pc[p] = "update_stack"
    /\ UNCHANGED <<cmd, accountId, names, atStart, envVars, stackParams, repos, images, services>>
    /\ LET params == ParamSet(dbPassword, accountId[p])
       IN \E answer \in UpdateAnswers(stack, StackRequest(params), stackParams) :
            /\ log' = Append(log, Entry(p, "infra", "update-stack", StackRequest(params),
                                        answer.ok, answer.text, 0))
            /\ cfOut' = [cfOut EXCEPT ![p] = answer.text]
            /\ IF answer.ok
                  THEN stack' = "updating" /\ pending' = params
                  ELSE UNCHANGED <<stack, pending>>
            /\ LET class == ClassifyUpdate(answer.text)
               IN IF class = "nochange"
                     THEN StageReturn(p) /\ UNCHANGED <<out, polls>>
                  ELSE IF class = "fail"
                     THEN /\ Say(p, "error: Failed to update CloudFormation stack")
                          /\ Exit(p, 1)
                          /\ UNCHANGED polls
                  ELSE /\ Goto(p, "wait_update")
                       /\ polls' = [polls EXCEPT ![p] = 0]
                       /\ UNCHANGED out

\* aws cloudformation create-stack ...: a rejection aborts the run (set -e).
CreateStack(p) ==
    /\ pc[p] = "create_stack"
    /\ UNCHANGED <<cmd, out, accountId, cfOut, names, atStart, envVars, stackParams,
                   repos, images, services>>
    /\ LET params == ParamSet(dbPassword, accountId[p])
       IN \E answer \in CreateAnswers(stack, StackRequest(params)) :
            /\ log' = Append(log, Entry(p, "infra", "create-stack", StackRequest(params),
                                        answer.ok, answer.text, 0))
            /\ IF answer.ok
                  THEN /\ stack' = "creating"
                       /\ pending' = params
                       /\ Goto(p, "wait_create")
                       /\ polls' = [polls EXCEPT ![p] = 0]
                  ELSE /\ UNCHANGED <<stack, pending, polls>>
                       /\ Exit(p, 255)

\* What one poll of `aws cloudformation wait stack-<kind>-complete` makes of
\* the state it observes.
WaiterVerdict(kind, st) ==
    IF st = kind \o "-complete" THEN "success"
    ELSE IF st \in Failed \cup {"absent"} THEN "failure"
    ELSE "retry"

\* One poll of the waiter.  The waiter exits with status 0 on the complete
\* state it waits for, with status 255 on a failed state, when its polls
\* are used up, or when a poll is rejected.
WaitStack(p) ==
    /\ pc[p] \in {"wait_update", "wait_create"}
    /\ UNCHANGED <<cmd, out, accountId, cfOut, names, atStart, envVars, planeVars>>
    /\ LET kind == IF pc[p] = "wait_update" THEN "update" ELSE "create"
           call == "wait stack-" \o kind \o "-complete"
       IN \E polled \in BOOLEAN :
            LET verdict == IF polled THEN WaiterVerdict(kind, stack) ELSE "failure"
            IN IF verdict = "success"
                  THEN /\ log' = Append(log, Called(p, "infra", call, STACK_NAME, TRUE))
                       /\ StageReturn(p)
                       /\ UNCHANGED polls
               ELSE IF verdict = "failure" \/ polls[p] + 1 >= MaxWaitPolls
                  THEN /\ log' = Append(log, Called(p, "infra", call, STACK_NAME, FALSE))
                       /\ Exit(p, 255)
                       /\ UNCHANGED polls
               ELSE /\ polls' = [polls EXCEPT ![p] = @ + 1]
                    /\ UNCHANGED <<pc, done, exitCode, log>>

\* BackendService and FrontendService of the template
Services == {"backend", "frontend"}

DesiredCount == 2

MaximumPercent == 200

MinimumHealthyPercent == 100

\* A deployment configuration that lets every task be stopped at once
MinHealthyNone == (DesiredCount * 0) \div 100

\* The healthy tasks a deployment must keep running, and the tasks it may
\* run at once.
MinHealthy == (DesiredCount * MinimumHealthyPercent + 99) \div 100

MaxTasks == (DesiredCount * MaximumPercent) \div 100

\* The tasks of a service: healthy tasks of earlier deployments, healthy
\* tasks of the current deployment, tasks of the current deployment that are
\* not healthy yet, and whether a deployment is in progress.
NoTasks == [old |-> 0, fresh |-> 0, starting |-> 0, rolling |-> FALSE]

SteadyTasks == [old |-> DesiredCount, fresh |-> 0, starting |-> 0, rolling |-> FALSE]

\* The services exist, at their desired count, once the stack is created.
ServicesOf(st) == [s \in Services |-> IF st \in HasOutputs THEN SteadyTasks ELSE NoTasks]

\* --force-new-deployment: the healthy tasks become tasks to replace, the
\* tasks of a superseded deployment that are not healthy yet are dropped.
ForceNewDeployment(r) ==
    [old |-> r.old + r.fresh, fresh |-> 0, starting |-> 0, rolling |-> TRUE]

\* The control plane finishes the operation in progress.
StackProgress ==
    /\ stack \in InProgress
    /\ \E succeeded \in BOOLEAN :
         IF succeeded
            THEN /\ stack' = (IF stack = "creating" THEN "create-complete" ELSE "update-complete")
                 /\ stackParams' = pending
            ELSE /\ stack' = (IF stack = "creating" THEN "create-failed" ELSE "update-failed")
                 /\ UNCHANGED stackParams
    /\ services' = (IF stack = "creating" THEN ServicesOf(stack') ELSE services)
    /\ UNCHANGED <<procVars, envVars, pending, repos, images, log>>

----------------------------------------------------------------------------
\* deploy_application

\* The value of a template Output, as `--query ... --output text` prints it:
\* empty for a stack that has no outputs.
OutputValue(st, key) == IF st \in HasOutputs THEN ENVIRONMENT \o "-blog-" \o key ELSE ""

LookupField(label) ==
    CASE label = "lookup_cluster" -> "cluster"
      [] label = "lookup_backend" -> "backend"
      [] label = "lookup_frontend" -> "frontend"

OutputKey(label) ==
    CASE label = "lookup_cluster" -> "ECSClusterName"
      [] label = "lookup_backend" -> "BackendServiceName"
      [] label = "lookup_frontend" -> "FrontendServiceName"

\* CLUSTER_NAME=$(aws cloudformation describe-stacks ... --query ...), and the
\* same for BACKEND_SERVICE and FRONTEND_SERVICE.  The assignment has the
\* status of the command, so `set -e` aborts when it is rejected.
LookupOutput(p) ==
    /\ pc[p] \in {"lookup_cluster", "lookup_backend", "lookup_frontend"}
    /\ UNCHANGED <<cmd, out, accountId, cfOut, polls, atStart, envVars, planeVars>>
    /\ \E described \in (IF stack # "absent" THEN {TRUE} ELSE {}) \cup {FALSE} :
         /\ log' = Append(log, Called(p, "app", "describe-stacks", OutputKey(pc[p]), described))
         /\ IF described
               THEN /\ names' = [names EXCEPT ![p][LookupField(pc[p])] =
                                    OutputValue(stack, OutputKey(pc[p]))]
                    /\ Goto(p, CASE pc[p] = "lookup_cluster" -> "lookup_backend"
                                 [] pc[p] = "lookup_backend" -> "lookup_frontend"
                                 [] pc[p] = "lookup_frontend" -> "roll_backend")
               ELSE /\ UNCHANGED names
                    /\ Exit(p, 255)

\* A rollout that returns after the request for the backend
AfterRolloutBackendOnly(label) == "return"

\* A rollout that waits for the services to be stable before it returns
AfterRolloutWaits(label) ==
    CASE label = "roll_backend" -> "roll_frontend"
      [] label = "roll_frontend" -> "wait_stable"

\* What follows an accepted update-service: the request for the frontend
\* after the one for the backend, the end of deploy_application after the
\* one for the frontend.
AfterRollout(label) ==
    CASE label = "roll_backend" -> "roll_frontend"
      [] label = "roll_frontend" -> "return"

\* A rollout whose two requests both name the backend service
RolledServiceBackendOnly(label) == "backend"

\* A rollout that asks for the frontend first
RolledServiceSwapped(label) == IF label = "roll_backend" THEN "frontend" ELSE "backend"

\* The service each of the two requests names
RolledService(label) == IF label = "roll_backend" THEN "backend" ELSE "frontend"

\* aws ecs update-service --cluster ... --service ... --force-new-deployment
\* An empty cluster or service name is refused.
UpdateService(p) ==
    /\ pc[p] \in {"roll_backend", "roll_frontend"}
    /\ UNCHANGED <<cmd, out, accountId, cfOut, names, polls, atStart, envVars,
                   stack, stackParams, pending, repos, images>>
    /\ LET svc == RolledService(pc[p])
           target == <<names[p].cluster, names[p][svc]>>
       IN \E accepted \in (IF names[p].cluster # "" /\ names[p][svc] # ""
                               THEN {TRUE} ELSE {}) \cup {FALSE} :
            /\ log' = Append(log, Called(p, "app", "update-service", target, accepted))
            /\ IF accepted
                  THEN /\ services' = [services EXCEPT ![svc] = ForceNewDeployment(@)]
                       /\ IF AfterRollout(pc[p]) = "return"
                             THEN StageReturn(p)
                             ELSE Goto(p, AfterRollout(pc[p]))
                  ELSE /\ UNCHANGED services
                       /\ Exit(p, 255)

----------------------------------------------------------------------------
\* The ECS scheduler replacing the tasks of a service under the service's
\* DeploymentConfiguration

Tasks(r) == r.old + r.fresh + r.starting

Healthy(r) == r.old + r.fresh

\* A task of the current deployment is started while the deployment lacks
\* tasks and the service runs fewer than MaximumPercent of its desired count.
StartTask(s) ==
    /\ services[s].rolling
    /\ services[s].fresh + services[s].starting < DesiredCount
    /\ Tasks(services[s]) < MaxTasks
    /\ services' = [services EXCEPT ![s].starting = @ + 1]
    /\ UNCHANGED <<procVars, envVars, stack, stackParams, pending, repos, images, log>>

\* A started task passes its health checks.
TaskHealthy(s) ==
    /\ services[s].starting > 0
    /\ services' = [services EXCEPT ![s].starting = @ - 1, ![s].fresh = @ + 1]
    /\ UNCHANGED <<procVars, envVars, stack, stackParams, pending, repos, images, log>>

\* A started task never becomes healthy and is stopped.
TaskFails(s) ==
    /\ services[s].starting > 0
    /\ services' = [services EXCEPT ![s].starting = @ - 1]
    /\ UNCHANGED <<procVars, envVars, stack, stackParams, pending, repos, images, log>>

\* A task of an earlier deployment is stopped when the service keeps
\* MinimumHealthyPercent of its desired count healthy without it.
StopOldTask(s) ==
    /\ services[s].rolling
    /\ services[s].old > 0
    /\ Healthy(services[s]) - 1 >= MinHealthy
    /\ services' = [services EXCEPT ![s].old = @ - 1]
    /\ UNCHANGED <<procVars, envVars, stack, stackParams, pending, repos, images, log>>

\* The deployment completes: only its own tasks run, at the desired count.
DeploymentCompleted(s) ==
    /\ services[s].rolling
    /\ services[s].old = 0
    /\ services[s].fresh = DesiredCount
    /\ services' = [services EXCEPT ![s] = SteadyTasks]
    /\ UNCHANGED <<procVars, envVars, stack, stackParams, pending, repos, images, log>>

Scheduler(s) ==
    \/ StartTask(s)
    \/ TaskHealthy(s)
    \/ TaskFails(s)
    \/ StopOldTask(s)
    \/ DeploymentCompleted(s)

----------------------------------------------------------------------------
\* run_health_checks and get_deployment_info

\* HTTP statuses a probe can get; 0 stands for no HTTP answer at all.
ProbeStatuses == {0, 200, 301, 404, 503}

\* `curl -s -f`: status 0 unless there is no answer or the HTTP status is
\* 400 or above.
CurlSucceeds(http) == http # 0 /\ http < 400

\* ALB_DNS=$(aws cloudformation describe-stacks ... ALBDNSName ...); sleep 120
LookupAlb(p) ==
    /\ pc[p] = "lookup_alb"
    /\ UNCHANGED <<cmd, out, accountId, cfOut, polls, atStart, envVars, planeVars>>
    /\ \E described \in (IF stack # "absent" THEN {TRUE} ELSE {}) \cup {FALSE} :
         /\ log' = Append(log, Called(p, "health", "describe-stacks", "ALBDNSName", described))
         /\ IF described
               THEN /\ names' = [names EXCEPT ![p].alb = OutputValue(stack, "ALBDNSName")]
                    /\ Goto(p, "probe_frontend")
               ELSE /\ UNCHANGED names
                    /\ Exit(p, 255)

\* if curl -s -f "http://$ALB_DNS/<path>" > /dev/null; then ... else print_warning
Probe(p) ==
    /\ pc[p] \in {"probe_frontend", "probe_backend"}
    /\ UNCHANGED <<cmd, accountId, cfOut, names, polls, atStart, envVars, planeVars>>
    /\ LET path == IF pc[p] = "probe_frontend" THEN "/health" ELSE "/api/health"
           url == <<"http://", names[p].alb, path>>
       IN \E http \in (IF names[p].alb = "" THEN {0} ELSE ProbeStatuses) :
            /\ log' = Append(log, Entry(p, "health", "curl", url, CurlSucceeds(http), NoText, http))
            /\ IF CurlSucceeds(http)
                  THEN Say(p, "status: health check passed " \o path)
                  ELSE Say(p, "warning: health check failed " \o path)
            /\ IF pc[p] = "probe_frontend"
                  THEN Goto(p, "probe_backend")
                  ELSE StageReturn(p)

\* get_deployment_info: the ALB_DNS lookup, then the summary is printed.
GetDeploymentInfo(p) ==
    /\ pc[p] = "info"
    /\ UNCHANGED <<cmd, out, accountId, cfOut, polls, atStart, envVars, planeVars>>
    /\ \E described \in (IF stack # "absent" THEN {TRUE} ELSE {}) \cup {FALSE} :
         /\ log' = Append(log, Called(p, "info", "describe-stacks", "ALBDNSName", described))
         /\ IF described
               THEN /\ names' = [names EXCEPT ![p].alb = OutputValue(stack, "ALBDNSName")]
                    /\ StageReturn(p)
               ELSE /\ UNCHANGED names
                    /\ Exit(p, 255)

----------------------------------------------------------------------------
\* Specifications

NoParams ==
    [Environment |-> "", DatabasePassword |-> "",
     BackendRepositoryUri |-> << >>, FrontendRepositoryUri |-> << >>]

\* The stacks an invocation can find: state, parameters of the resources,
\* parameters of the operation in progress.
Planes ==
    {<<"absent", NoParams, NoParams>>, <<"create-failed", NoParams, NoParams>>}
    \cup {<<"creating", NoParams, q>> : q \in {ConvergedParams, StaleParams}}
    \cup {<<st, q, NoParams>> : st \in {"create-complete", "update-complete", "update-failed"},
                                q \in {ConvergedParams, StaleParams}}
    \cup {<<"updating", StaleParams, ConvergedParams>>,
          <<"updating", ConvergedParams, StaleParams>>}

\* The frontend is not loaded.
BrowserClosed ==
    /\ storedToken = ""
    /\ authHeader = ""
    /\ user = ""
    /\ loading = TRUE
    /\ toasts = {}
    /\ mountPc = "mount"
    /\ loginPc = "idle"
    /\ loginResult = "none"

InitCommon ==
    /\ BrowserClosed
    /\ done = [p \in Procs |-> << >>]
    /\ exitCode = [p \in Procs |-> -1]
    /\ out = [p \in Procs |-> {}]
    /\ cfOut = [p \in Procs |-> NoText]
    /\ names = [p \in Procs |-> NoNames]
    /\ polls = [p \in Procs |-> 0]
    /\ atStart = [p \in Procs |-> [st |-> "absent", params |-> NoParams]]
    /\ \E plane \in Planes :
         /\ stack = plane[1]
         /\ stackParams = plane[2]
         /\ pending = plane[3]
    /\ images = {}
    /\ services = ServicesOf(stack)
    /\ log = << >>

\* ECR_REPOSITORY_PREFIX=${ECR_REPOSITORY_PREFIX:-"blog"}
DefaultPrefix == "blog"

\* One invocation with any subcommand, in any environment.
Init ==
    /\ InitCommon
    /\ \E c \in Subcommands \cup {"rollback"} : cmd = [p \in Procs |-> IF p = 1 THEN c ELSE ""]
    /\ pc = [p \in Procs |-> IF p = 1 THEN "start" ELSE "off"]
    /\ hasAws \in BOOLEAN
    /\ hasDocker \in BOOLEAN
    /\ dbPassword \in {"", GoodPassword}
    /\ repositoryPrefix \in {DefaultPrefix, "myapp"}
    /\ \E a \in {"", AccountNumber} : accountId = [p \in Procs |-> a]
    /\ repos \in SUBSET {"blog-backend", "blog-frontend"}

Step(p) ==
    \/ Dispatch(p)
    \/ CheckPrerequisites(p)
    \/ EnsureRepository(p)
    \/ EcrLogin(p)
    \/ BuildImage(p)
    \/ PushImage(p)
    \/ DescribeStack(p)
    \/ UpdateStack(p)
    \/ CreateStack(p)
    \/ WaitStack(p)
    \/ LookupOutput(p)
    \/ UpdateService(p)
    \/ LookupAlb(p)
    \/ Probe(p)
    \/ GetDeploymentInfo(p)

Next == StackProgress \/ \E p \in Procs : Step(p)

Spec == Init /\ [][Next]_vars

TypeOK ==
    /\ stack \in StackStates
    /\ \A p \in Procs : exitCode[p] \in {-1, 0, 1, 255}
    /\ \A p \in Procs : (pc[p] = "exited") <=> (exitCode[p] # -1)
    /\ storedToken \in {"", "jwt"}
    /\ authHeader \in {"", "jwt"}
    /\ user \in {"", "me"}
    /\ loading \in BOOLEAN
    /\ mountPc \in {"mount", "fetching", "done"}
    /\ loginPc \in {"idle", "posting", "fetching", "returned"}
    /\ loginResult \in {"none", "true", "false"}

\* Two runs of `deploy.sh infrastructure` in a row with the same environment:
\* the second starts when the first has exited.
InitTwice ==
    /\ InitCommon
    /\ cmd = [p \in Procs |-> "infrastructure"]
    /\ pc = [p \in Procs |-> IF p = 1 THEN "start" ELSE "queued"]
    /\ hasAws = TRUE
    /\ hasDocker = TRUE
    /\ dbPassword = GoodPassword
    /\ repositoryPrefix = DefaultPrefix
    /\ accountId = [p \in Procs |-> AccountNumber]
    /\ repos = {"blog-backend", "blog-frontend"}

StartSecond ==
    /\ pc[1] = "exited"
    /\ pc[2] = "queued"
    /\ pc' = [pc EXCEPT ![2] = "start"]
    /\ UNCHANGED <<cmd, done, exitCode, out, accountId, cfOut, names, polls, atStart,
                   envVars, planeVars, log>>

StepInfrastructure(p) ==
    \/ Dispatch(p)
    \/ CheckPrerequisites(p)
    \/ DescribeStack(p)
    \/ UpdateStack(p)
    \/ CreateStack(p)
    \/ WaitStack(p)

NextTwice == StackProgress \/ StartSecond \/ \E p \in Procs : StepInfrastructure(p)

SpecTwice == InitTwice /\ [][NextTwice]_vars

\* One run of `deploy.sh application` in an environment that passes the
\* prerequisites, with the ECS scheduler at work.
InitRollout ==
    /\ InitCommon
    /\ cmd = [p \in Procs |-> IF p = 1 THEN "application" ELSE ""]
    /\ pc = [p \in Procs |-> IF p = 1 THEN "start" ELSE "off"]
    /\ hasAws = TRUE
    /\ hasDocker = TRUE
    /\ dbPassword = GoodPassword
    /\ repositoryPrefix = DefaultPrefix
    /\ accountId = [p \in Procs |-> AccountNumber]
    /\ repos = {"blog-backend", "blog-frontend"}

StepApplication(p) ==
    \/ Dispatch(p)
    \/ CheckPrerequisites(p)
    \/ LookupOutput(p)
    \/ UpdateService(p)

NextRollout ==
    \/ StackProgress
    \/ \E s \in Services : Scheduler(s)
    \/ \E p \in Procs : StepApplication(p)

SpecRollout == InitRollout /\ [][NextRollout]_vars

\* Two runs of `deploy.sh infrastructure` at the same time against the same
\* stack name, in an environment that passes the prerequisites.
InitRace ==
    /\ InitCommon
    /\ cmd = [p \in Procs |-> "infrastructure"]
    /\ pc = [p \in Procs |-> "start"]
    /\ hasAws = TRUE
    /\ hasDocker = TRUE
    /\ dbPassword = GoodPassword
    /\ repositoryPrefix = DefaultPrefix
    /\ accountId = [p \in Procs |-> AccountNumber]
    /\ repos = {"blog-backend", "blog-frontend"}

NextRace == StackProgress \/ \E p \in Procs : StepInfrastructure(p)

SpecRace == InitRace /\ [][NextRace]_vars

----------------------------------------------------------------------------
\* test_deploy.sh: invocation 1 is what test_build_and_push runs of
\* deploy.sh, invocation 2 what test_deploy_infrastructure runs of it, in
\* the one shell of the test script (set -e).

\* `source ./deploy.sh` inside a test function that was called without
\* arguments: the script runs from its first line to its case statement
\* with no positional parameter, so "${1:-deploy}" is "deploy".
SourcedCommand == "deploy"

\* The function each test calls after sourcing, as the subcommand that
\* runs the same stage function.
FunctionUnderTest(p) == IF p = 1 THEN "build" ELSE "infrastructure"

\* What the functions aws and docker of the tests return: test 1's aws
\* returns 1 for describe-repositories of a repository without its marker
\* file in /tmp and 0 for everything else, test 2's aws returns 1 for every
\* cloudformation describe-stacks and 0 for a create-stack that names both
\* repository URIs; docker returns 0.  curl is not replaced: it gets no
\* answer from the address the doubles leave it with.
MockStatus(e) ==
    CASE e.call = "describe-repositories" -> e.ok
      [] e.call = "describe-stacks" -> e.p = 1
      [] e.call = "curl" -> FALSE
      [] OTHER -> TRUE

MocksAnswer == \A i \in 1..Len(log) : log[i].ok = MockStatus(log[i]) /\ log[i].http = 0

InitTest ==
    /\ InitCommon
    /\ stack = "update-complete"
    /\ stackParams = StaleParams
    /\ cmd = [p \in Procs |-> SourcedCommand]
    /\ pc = [p \in Procs |-> IF p = 1 THEN "start" ELSE "queued"]
    /\ hasAws = TRUE
    /\ hasDocker = TRUE
    /\ dbPassword = GoodPassword
    /\ repositoryPrefix = DefaultPrefix
    /\ accountId = [p \in Procs |-> AccountNumber]
    /\ repos \in SUBSET {"blog-backend", "blog-frontend"}

\* `source` has returned (the dispatch ended with status 0): the test calls
\* its function, build_and_push_images or deploy_infrastructure.
TestCall(p) ==
    /\ pc[p] = "exited"
    /\ exitCode[p] = 0
    /\ cmd[p] = SourcedCommand
    /\ cmd' = [cmd EXCEPT ![p] = FunctionUnderTest(p)]
    /\ done' = [done EXCEPT ![p] = <<"prereq">>]
    /\ pc' = [pc EXCEPT ![p] = EntryPc(Stages(FunctionUnderTest(p))[2])]
    /\ exitCode' = [exitCode EXCEPT ![p] = -1]
    /\ UNCHANGED <<out, accountId, cfOut, names, polls, atStart, envVars, planeVars, log>>

\* test_build_and_push has returned: test_deploy_infrastructure starts, and
\* its aws function stands for a control plane without the stack.
TestNext ==
    /\ pc[1] = "exited"
    /\ exitCode[1] = 0
    /\ cmd[1] = FunctionUnderTest(1)
    /\ pc[2] = "queued"
    /\ pc' = [pc EXCEPT ![2] = "start"]
    /\ stack' = "absent"
    /\ stackParams' = NoParams
    /\ pending' = NoParams
    /\ services' = ServicesOf("absent")
    /\ UNCHANGED <<cmd, done, exitCode, out, accountId, cfOut, names, polls, atStart,
                   envVars, repos, images, log>>

NextTest ==
    /\ \/ StackProgress
       \/ TestNext
       \/ \E p \in Procs : TestCall(p) \/ Step(p)
    /\ MocksAnswer'

SpecTest == InitTest /\ [][NextTest]_vars

----------------------------------------------------------------------------
\* The AuthProvider of the frontend (AuthContext)

Toast(msg) == toasts' = toasts \cup {msg}

\* logout: setUser(null), the storedToken and the Authorization header removed
LoggedOut ==
    /\ user' = ""
    /\ storedToken' = ""
    /\ authHeader' = ""

\* fetchUser, from the answer to GET /api/users/me on: the user is set, or
\* the error is caught and logout is called; loading ends either way and
\* the promise resolves, and the caller shows the toasts of `after`.
FetchUser(ok, after) ==
    /\ loading' = FALSE
    /\ IF ok
          THEN /\ user' = "me"
               /\ toasts' = toasts \cup after
               /\ UNCHANGED <<storedToken, authHeader>>
          ELSE /\ LoggedOut
               /\ toasts' = toasts \cup {"Logged out successfully"} \cup after

\* useEffect(..., []): with a stored storedToken the header is set and fetchUser
\* is called, without one loading ends.
Mount ==
    /\ mountPc = "mount"
    /\ IF storedToken # ""
          THEN /\ authHeader' = storedToken
               /\ mountPc' = "fetching"
               /\ UNCHANGED loading
          ELSE /\ loading' = FALSE
               /\ mountPc' = "done"
               /\ UNCHANGED authHeader
    /\ UNCHANGED <<storedToken, user, toasts, loginPc, loginResult, shellVars>>

\* The fetchUser of the effect gets its answer.
MountFetched ==
    /\ mountPc = "fetching"
    /\ \E ok \in BOOLEAN : FetchUser(ok, {})
    /\ mountPc' = "done"
    /\ UNCHANGED <<loginPc, loginResult, shellVars>>

\* login is called: the form is posted to /api/auth/login.
LoginCalled ==
    /\ mountPc # "mount"
    /\ loginPc \in {"idle", "returned"}
    /\ loginPc' = "posting"
    /\ loginResult' = "none"
    /\ UNCHANGED <<storedToken, authHeader, user, loading, toasts, mountPc, shellVars>>

\* The answer to the post: the storedToken is stored, the header set and
\* fetchUser called, or the error is caught and login resolves to false.
LoginAnswered ==
    /\ loginPc = "posting"
    /\ \E ok \in BOOLEAN :
         IF ok
            THEN /\ storedToken' = "jwt"
                 /\ authHeader' = "jwt"
                 /\ loginPc' = "fetching"
                 /\ UNCHANGED <<toasts, loginResult>>
            ELSE /\ Toast("Login failed")
                 /\ loginResult' = "false"
                 /\ loginPc' = "returned"
                 /\ UNCHANGED <<storedToken, authHeader>>
    /\ UNCHANGED <<user, loading, mountPc, shellVars>>

\* `await fetchUser()` resumes: fetchUser has resolved, whatever the answer
\* to its request was, and login shows the success toast and resolves to
\* true.
LoginFetched ==
    /\ loginPc = "fetching"
    /\ \E ok \in BOOLEAN : FetchUser(ok, {"Login successful!"})
    /\ loginResult' = "true"
    /\ loginPc' = "returned"
    /\ UNCHANGED <<mountPc, shellVars>>

\* signup, from the answer to its post on: a toast either way, nothing stored
Signup ==
    /\ mountPc # "mount"
    /\ \E ok \in BOOLEAN :
         Toast(IF ok THEN "Account created successfully! Please log in."
                     ELSE "Signup failed")
    /\ UNCHANGED <<storedToken, authHeader, user, loading, mountPc, loginPc,
                   loginResult, shellVars>>

\* updateProfile, from the answer to its put on: the user is replaced by the
\* answer, or the error is shown
UpdateProfile ==
    /\ mountPc # "mount"
    /\ \E ok \in BOOLEAN :
         IF ok
            THEN /\ user' = "me"
                 /\ Toast("Profile updated successfully!")
            ELSE /\ Toast("Profile update failed")
                 /\ UNCHANGED user
    /\ UNCHANGED <<storedToken, authHeader, loading, mountPc, loginPc,
                   loginResult, shellVars>>

\* logout, called from the page
Logout ==
    /\ mountPc # "mount"
    /\ LoggedOut
    /\ Toast("Logged out successfully")
    /\ UNCHANGED <<loading, mountPc, loginPc, loginResult, shellVars>>

\* The page is loaded in a browser that may hold a storedToken of an earlier
\* session; no deployment runs.
InitAuth ==
    /\ storedToken \in {"", "jwt"}
    /\ authHeader = ""
    /\ user = ""
    /\ loading = TRUE
    /\ toasts = {}
    /\ mountPc = "mount"
    /\ loginPc = "idle"
    /\ loginResult = "none"
    /\ cmd = [p \in Procs |-> ""]
    /\ pc = [p \in Procs |-> "off"]
    /\ done = [p \in Procs |-> << >>]
    /\ exitCode = [p \in Procs |-> -1]
    /\ out = [p \in Procs |-> {}]
    /\ accountId = [p \in Procs |-> ""]
    /\ cfOut = [p \in Procs |-> NoText]
    /\ names = [p \in Procs |-> NoNames]
    /\ polls = [p \in Procs |-> 0]
    /\ atStart = [p \in Procs |-> [st |-> "absent", params |-> NoParams]]
    /\ hasAws = TRUE
    /\ hasDocker = TRUE
    /\ dbPassword = GoodPassword
    /\ repositoryPrefix = DefaultPrefix
    /\ stack = "create-complete"
    /\ stackParams = ConvergedParams
    /\ pending = NoParams
    /\ repos = {"blog-backend", "blog-frontend"}
    /\ images = {}
    /\ services = ServicesOf("create-complete")
    /\ log = << >>

NextAuth ==
    \/ Mount
    \/ MountFetched
    \/ LoginCalled
    \/ LoginAnswered
    \/ LoginFetched
    \/ Signup
    \/ UpdateProfile
    \/ Logout

SpecAuth == InitAuth /\ [][NextAuth]_vars

----------------------------------------------------------------------------
\* Vocabulary of the properties

Idx == 1..Len(log)

\* The order of the stages of a full deploy
Rank(stage) ==
    CASE stage = "prereq" -> 1
      [] stage = "build" -> 2
      [] stage = "infra" -> 3
      [] stage = "app" -> 4
      [] stage = "health" -> 5
      [] stage = "info" -> 6

Returned(p) == {done[p][k] : k \in 1..Len(done[p])}

IsPrefix(s, t) == Len(s) <= Len(t) /\ \A k \in 1..Len(s) : s[k] = t[k]

IsWait(e) == e.call \in {"wait stack-update-complete", "wait stack-create-complete"}

Exited(p) == pc[p] = "exited"

\* C1: in a full deploy the stage functions run one at a time in the order
\* prerequisites, build/push, stack convergence, rollout, health check (then
\* the summary): the stages that returned form a prefix of that order, the
\* external commands appear in the log in that order, and a command of a
\* stage is in the log only if every earlier stage has returned.
C1_StagesInFixedOrder ==
    \A p \in Procs : cmd[p] = "deploy" =>
        /\ IsPrefix(done[p], <<"prereq", "build", "infra", "app", "health", "info">>)
        /\ \A i \in Idx : log[i].p = p =>
              /\ \A j \in Idx : (i < j /\ log[j].p = p) => Rank(log[i].stage) <= Rank(log[j].stage)
              /\ \A s \in {"prereq", "build", "infra", "app", "health"} :
                    Rank(s) < Rank(log[i].stage) => s \in Returned(p)

\* A full deploy that ran every stage and ended with status 0
C1_Witness ==
    /\ cmd[1] = "deploy"
    /\ exitCode[1] = 0
    /\ \A s \in {"build", "infra", "app", "health", "info"} : \E i \in Idx : log[i].stage = s

\* A rejected command of the build/push, convergence or rollout stage that
\* is not one of the script's existence probes, or an update-stack answer
\* that is an error other than "no updates".
StageFailure(e) ==
    /\ e.stage \in {"build", "infra", "app"}
    /\ ~e.ok
    /\ e.call \notin {"describe-repositories", "get-login-password"}
    /\ ~(e.stage = "infra" /\ e.call = "describe-stacks")
    /\ ~(e.call = "update-stack" /\ Contains(e.text, NoUpdatesMarker))

\* C2: in a full deploy, once a command of the build/push, convergence or
\* rollout stage has failed, no command of a later stage is issued and the
\* process exits with a non-zero status.
C2_FailureAbortsLaterStages ==
    \A p \in Procs : cmd[p] = "deploy" =>
        \A i \in Idx : (log[i].p = p /\ StageFailure(log[i])) =>
            /\ \A j \in Idx : (i < j /\ log[j].p = p) => Rank(log[j].stage) <= Rank(log[i].stage)
            /\ Exited(p) => exitCode[p] # 0

\* C3: deploy and application send an update-service request (one that
\* names a cluster and a service read from the stack) only while the stack
\* is in a complete state.
C3_RolloutOnlyOnCompleteStack ==
    \A i \in Idx :
        (/\ log[i].call = "update-service"
         /\ cmd[log[i].p] \in {"deploy", "application"}
         /\ log[i].arg[1] # "" /\ log[i].arg[2] # "")
            => log[i].st \in Complete

\* C4: when deploy_infrastructure queries a stack that is creating or
\* updating, it issues neither create-stack nor update-stack and the run
\* ends with a non-zero status.
C4_BusyStackNotTouched ==
    \A i \in Idx :
        (log[i].stage = "infra" /\ log[i].call = "describe-stacks" /\ log[i].st \in InProgress) =>
            /\ \A j \in Idx : (i < j /\ log[j].p = log[i].p)
                   => log[j].call \notin {"create-stack", "update-stack"}
            /\ Exited(log[i].p) => exitCode[log[i].p] # 0

\* C5: a full deploy whose convergence and rollout stages succeeded exits
\* with status 0, and runs both probes whatever the first one answers.
C5_HealthIsAdvisory ==
    \A p \in Procs :
        (cmd[p] = "deploy" /\ "app" \in Returned(p)) =>
            /\ Exited(p) => exitCode[p] = 0
            /\ (\E i \in Idx : log[i].p = p /\ log[i].call = "curl" /\ log[i].arg[3] = "/health")
                   => pc[p] \in {"probe_backend", "info", "exited"}

\* C6: deploy_infrastructure issues create-stack only for an absent stack,
\* update-stack only for a present one, and never both in one invocation.
C6_CreateIffAbsent ==
    \A i \in Idx : log[i].stage = "infra" =>
        /\ log[i].call = "create-stack" => log[i].st = "absent"
        /\ log[i].call = "update-stack" => log[i].st # "absent"
        /\ log[i].call = "create-stack" =>
              ~\E j \in Idx : log[j].p = log[i].p /\ log[j].call = "update-stack"

\* C7: an update-stack error without the no-updates marker ends the run
\* there and then with a non-zero status: no wait and no later command.
C7_UpdateErrorsAbort ==
    \A i \in Idx :
        (log[i].call = "update-stack" /\ ~log[i].ok /\ ~Contains(log[i].text, NoUpdatesMarker)) =>
            /\ Exited(log[i].p) /\ exitCode[log[i].p] # 0
            /\ ~\E j \in Idx : i < j /\ log[j].p = log[i].p

RolloutAccepted(p) ==
    \E i, j \in Idx :
        /\ i < j
        /\ log[i].p = p /\ log[i].call = "update-service" /\ log[i].ok
        /\ log[j].p = p /\ log[j].call = "update-service" /\ log[j].ok

\* C8: after a no-updates answer deploy_infrastructure neither waits nor
\* exits, and the full deploy ends with status 0 if both update-service
\* requests are accepted.
C8_NoUpdatesIsSuccess ==
    \A p \in Procs : cmd[p] = "deploy" =>
        \A i \in Idx :
            (log[i].p = p /\ log[i].call = "update-stack" /\ Contains(log[i].text, NoUpdatesMarker)) =>
                /\ "infra" \in Returned(p)
                /\ ~\E j \in Idx : log[j].p = p /\ IsWait(log[j])
                /\ (Exited(p) /\ RolloutAccepted(p)) => exitCode[p] = 0

\* The run started against a stack that is complete and was built from the
\* very parameters the run submits.
StartedConverged(p) ==
    /\ pc[p] \notin {"off", "queued", "start"}
    /\ atStart[p].st \in Complete
    /\ atStart[p].params = ConvergedParams

NoChangeOutcome(p) ==
    /\ Exited(p)
    /\ exitCode[p] = 0
    /\ Contains(cfOut[p], NoUpdatesMarker)

\* The control plane answered the run's describe-stacks and update-stack.
Answered(p) ==
    /\ \E i \in Idx : log[i].p = p /\ log[i].call = "describe-stacks" /\ log[i].ok
    /\ \E i \in Idx : log[i].p = p /\ log[i].call = "update-stack"
                        /\ ~Contains(log[i].text, NotConnected)

C10_ReturnsOnlyOnComplete ==
    \A i \in Idx :
        (log[i].call \in {"create-stack", "update-stack"} /\ log[i].ok) =>
            LET p == log[i].p
                target == IF log[i].call = "create-stack" THEN "create-complete"
                                                          ELSE "update-complete"
                waits == {j \in Idx : i < j /\ log[j].p = p /\ IsWait(log[j])}
            IN /\ waits = {} => pc[p] \in {"wait_create", "wait_update"}
               /\ "infra" \in Returned(p) =>
                     \E j \in waits : log[j].ok /\ log[j].st = target
               /\ \A j \in waits : ~log[j].ok =>
                     /\ Exited(p) /\ exitCode[p] # 0
                     /\ "infra" \notin Returned(p)
                     /\ ~\E k \in Idx : log[k].p = p /\ log[k].call = "update-service"
               /\ \A j \in waits : log[j].ok => log[j].st = target

\* A full deploy created the stack, waited for create-complete and went on
\* to the rollout.
C10_Witness ==
    /\ cmd[1] = "deploy"
    /\ \E i, j, k \in Idx :
         /\ i < j /\ j < k
         /\ log[i].call = "create-stack" /\ log[i].ok
         /\ log[j].call = "wait stack-create-complete" /\ log[j].ok
         /\ log[k].call = "update-service"


----------------------------------------------------------------------------
\* The messages of print_error and the usage text
IsErrorMessage(msg) ==
    msg \in {"usage",
             "error: AWS CLI is not installed",
             "error: Docker is not installed",
             "error: DATABASE_PASSWORD is not set",
             "error: Could not retrieve AWS account ID",
             "error: Failed to update CloudFormation stack"}

\* C11: when one of the two update-service requests of a run is rejected
\* (the one for the frontend after the one for the backend was accepted, or
\* the one for the backend, which ends the rollout), the run ends with a
\* non-zero status and with an error message of the script in its output.
C11_PartialFailureReported ==
    \A i \in Idx :
        (log[i].call = "update-service" /\ ~log[i].ok /\ Exited(log[i].p)) =>
            /\ exitCode[log[i].p] # 0
            /\ \E msg \in out[log[i].p] : IsErrorMessage(msg)

\* C12: once both update-service requests of a run are accepted,
\* deploy_application has returned: the step that records the second
\* acceptance is the step that ends the stage, whatever the tasks of the
\* services are doing.
C12_ReturnsOnAcceptance ==
    \A p \in Procs : RolloutAccepted(p) =>
        /\ "app" \in Returned(p)
        /\ Exited(p) /\ exitCode[p] = 0

\* The rollout has returned with status 0 while neither service runs a
\* task of the new deployment.
C12_Witness ==
    /\ RolloutAccepted(1)
    /\ exitCode[1] = 0
    /\ \A s \in Services :
          services[s].rolling /\ services[s].fresh = 0 /\ services[s].old = DesiredCount

\* The identity lookup of the run was rejected or printed nothing.
IdentityUnresolved(p) ==
    \E i \in Idx : /\ log[i].p = p
                    /\ log[i].call = "sts get-caller-identity"
                    /\ log[i].arg \in {"rejected", ""}

MissingPrerequisite(p) ==
    \/ ~hasAws
    \/ ~hasDocker
    \/ dbPassword = ""
    \/ IdentityUnresolved(p)

Mutating == {"create-repository", "docker push", "create-stack", "update-stack", "update-service"}

\* C13: whatever the subcommand, a run that lacks a prerequisite (aws,
\* docker, DATABASE_PASSWORD, or an account identity that the lookup does
\* not resolve) issues no mutating command, never gets past
\* check_prerequisites, and ends with a non-zero status.
C13_PrerequisitesFailFast ==
    \A p \in Procs : MissingPrerequisite(p) =>
        /\ \A i \in Idx : log[i].p = p => log[i].call \notin Mutating
        /\ "prereq" \notin Returned(p)
        /\ Exited(p) => exitCode[p] # 0

\* A run with both tools and a password whose identity lookup printed
\* nothing has exited with status 1.
C13_Witness ==
    /\ cmd[1] \in Subcommands
    /\ hasAws /\ hasDocker /\ dbPassword # ""
    /\ \E i \in Idx : log[i].call = "sts get-caller-identity" /\ log[i].ok /\ log[i].arg = ""
    /\ exitCode[1] = 1


IsStackRequest(e) == e.call \in {"create-stack", "update-stack"}

\* C14: every create-stack and update-stack request declares capabilities
\* that acknowledge what the template requires (IAM roles with explicit
\* names), and none is rejected for insufficient capabilities.
C14_CapabilitiesDeclared ==
    \A i \in Idx : IsStackRequest(log[i]) =>
        /\ TemplateRequires \subseteq Acknowledged(log[i].arg.capabilities)
        /\ ~Contains(log[i].text, "InsufficientCapabilitiesException")

\* The parameters the template has no default for, and Environment
TemplateParameters ==
    {"Environment", "DatabasePassword", "BackendRepositoryUri", "FrontendRepositoryUri"}

\* The request gives the parameter a value that is not empty: a repository
\* URI has an account and a repository name.
Carries(request, key) ==
    /\ key \in DOMAIN request.parameters
    /\ IF key \in {"BackendRepositoryUri", "FrontendRepositoryUri"}
          THEN request.parameters[key][1] # "" /\ request.parameters[key][5] # ""
          ELSE request.parameters[key] # ""

\* C15: every create-stack and update-stack request of deploy_infrastructure
\* carries the four template parameters, the two repository URIs being the
\* ones of blog-backend and blog-frontend, and when deploy_infrastructure
\* has returned after an accepted create-stack, a successful wait for
\* stack-create-complete follows the request in the log.
C15_RequestsCarryAllParameters ==
    \A i \in Idx : (log[i].stage = "infra" /\ IsStackRequest(log[i])) =>
        /\ \A key \in TemplateParameters : Carries(log[i].arg, key)
        /\ log[i].arg.parameters.BackendRepositoryUri[5] = "blog-backend"
        /\ log[i].arg.parameters.FrontendRepositoryUri[5] = "blog-frontend"
        /\ (log[i].call = "create-stack" /\ log[i].ok /\ "infra" \in Returned(log[i].p)) =>
              \E j \in Idx : /\ i < j
                              /\ log[j].p = log[i].p
                              /\ log[j].call = "wait stack-create-complete"
                              /\ log[j].ok

\* The stack was absent, create-stack was accepted and deploy_infrastructure
\* has returned.
C15_Witness ==
    \E i \in Idx : /\ log[i].call = "create-stack"
                    /\ log[i].ok
                    /\ log[i].st = "absent"
                    /\ "infra" \in Returned(log[i].p)

\* The environment of the run leaves a parameter the template has no
\* default for without a value: the password, or the account the two
\* repository URIs are built from.
ParameterMissing(p) == dbPassword = "" \/ accountId[p] = ""

\* C16: a run whose environment leaves a required template parameter
\* without a value issues neither create-stack nor update-stack, does not
\* complete the convergence stage and ends with a non-zero status.
C16_MissingParameterFailsFirst ==
    \A p \in Procs : (ParameterMissing(p) /\ pc[p] \notin {"off", "queued"}) =>
        /\ ~\E i \in Idx : log[i].p = p /\ IsStackRequest(log[i])
        /\ "infra" \notin Returned(p)
        /\ Exited(p) => exitCode[p] # 0

\* `deploy.sh infrastructure` without DATABASE_PASSWORD, tools present, has
\* exited with status 1.
C16_Witness ==
    /\ cmd[1] = "infrastructure"
    /\ hasAws /\ hasDocker
    /\ dbPassword = ""
    /\ exitCode[1] = 1
    /\ log = << >>


\* The stage functions each subcommand is documented to run
OwnStages(c) ==
    CASE c = "deploy" -> {"prereq", "build", "infra", "app", "health", "info"}
      [] c = "build" -> {"prereq", "build"}
      [] c = "infrastructure" -> {"prereq", "infra"}
      [] c = "application" -> {"prereq", "app"}
      [] c = "health" -> {"prereq", "health"}
      [] c = "info" -> {"prereq", "info"}
      [] OTHER -> {}

\* The requests a subcommand must not issue
Excluded(c) ==
    CASE c = "build" -> {"create-stack", "update-stack", "update-service"}
      [] c = "infrastructure" -> {"docker push", "update-service"}
      [] c = "application" -> {"docker push", "create-stack", "update-stack"}
      [] c \in {"health", "info"} -> Mutating
      [] OTHER -> {}

\* C17: the commands of a run all belong to the stages of its subcommand
\* (build: no stack or service request; infrastructure: no push, no service
\* request; application: no push, no create/update-stack; health and info:
\* no mutating request), and a run with an unknown subcommand completes no
\* stage, issues no command, prints the usage text and exits non-zero.
C17_SubcommandRunsOwnStages ==
    \A p \in Procs :
        /\ \A i \in Idx : log[i].p = p =>
              /\ log[i].stage \in OwnStages(cmd[p])
              /\ log[i].call \notin Excluded(cmd[p])
        /\ \A k \in 1..Len(done[p]) : done[p][k] \in OwnStages(cmd[p])
        /\ (cmd[p] \notin Subcommands /\ Exited(p)) =>
              /\ exitCode[p] # 0
              /\ "usage" \in out[p]

\* `deploy.sh health` has run its two probes and exited with status 0.
C17_Witness ==
    /\ cmd[1] = "health"
    /\ exitCode[1] = 0
    /\ \E i, j \in Idx : i < j /\ log[i].call = "curl" /\ log[j].call = "curl"

\* C18: a run that exited with a non-zero status has an error message of
\* the script (print_error or the usage text) in its output.
C18_FailuresAreReported ==
    \A p \in Procs :
        (Exited(p) /\ exitCode[p] # 0) => \E msg \in out[p] : IsErrorMessage(msg)

Passed(e) == ("status: health check passed " \o e.arg[3]) \in out[e.p]

Warned(e) == ("warning: health check failed " \o e.arg[3]) \in out[e.p]

\* C20: a probe is reported as passed exactly when its HTTP status is in
\* 200..299, and ends in the warning for every other status and when there
\* is no HTTP answer.
C20_PassedIffStatus2xx ==
    \A i \in Idx : log[i].call = "curl" =>
        /\ Passed(log[i]) <=> log[i].http \in 200..299
        /\ Warned(log[i]) <=> log[i].http \notin 200..299


\* Every command of the run got the answer of a control plane, a registry
\* and a network without faults: all exited with status 0, except the
\* existence probes (describe-repositories, and describe-stacks of
\* deploy_infrastructure on an absent stack), whose failure is their answer.
Faultless(p) ==
    \A i \in Idx : log[i].p = p =>
        \/ log[i].ok
        \/ log[i].call = "describe-repositories"
        \/ log[i].stage = "infra" /\ log[i].call = "describe-stacks" /\ log[i].st = "absent"

\* The commands of the run after its build stage, in the order of issue
AfterBuild(p) ==
    LET Mine(e) == e.p = p /\ e.stage \notin {"prereq", "build"}
    IN SelectSeq(log, Mine)

\* C21: a full deploy that passed check_prerequisites, started on an absent
\* stack, had every command succeed and has exited, exited with status 0,
\* and its commands after the build stage are: the existence check, one
\* create-stack, the wait that ended on the create-complete stack, the
\* three name lookups, the accepted update-service for the backend, then
\* the one for the frontend, the ALB lookup, the probes of /health and
\* /api/health on the ALB address of the stack's outputs, and the lookup of
\* the summary; no update-stack and no other request.
C21_FreshDeployRunsToTheEnd ==
    \A p \in Procs :
        (/\ cmd[p] = "deploy"
         /\ "prereq" \in Returned(p)
         /\ atStart[p].st = "absent"
         /\ Faultless(p)
         /\ Exited(p)) =>
            LET t == AfterBuild(p)
                cluster == OutputValue("create-complete", "ECSClusterName")
                alb == OutputValue("create-complete", "ALBDNSName")
            IN /\ exitCode[p] = 0
               /\ [k \in 1..Len(t) |-> t[k].call] =
                     <<"describe-stacks", "create-stack", "wait stack-create-complete",
                       "describe-stacks", "describe-stacks", "describe-stacks",
                       "update-service", "update-service",
                       "describe-stacks", "curl", "curl", "describe-stacks">>
               /\ t[2].st = "absent" /\ t[2].ok
               /\ t[3].st = "create-complete"
               /\ t[7].arg = <<cluster, OutputValue("create-complete", "BackendServiceName")>>
               /\ t[8].arg = <<cluster, OutputValue("create-complete", "FrontendServiceName")>>
               /\ t[7].ok /\ t[8].ok
               /\ t[10].arg = <<"http://", alb, "/health">>
               /\ t[11].arg = <<"http://", alb, "/api/health">>

\* A full deploy on an absent stack without a single fault has exited
\* with status 0.
C21_Witness ==
    /\ cmd[1] = "deploy"
    /\ atStart[1].st = "absent"
    /\ Faultless(1)
    /\ exitCode[1] = 0
    /\ \E i \in Idx : log[i].call = "create-stack"


\* The commands of the build stage of the run, in the order of issue
BuildLog(p) ==
    LET Mine(e) == e.p = p /\ e.stage = "build"
    IN SelectSeq(log, Mine)

Ensured(e, r) ==
    /\ e.call \in {"describe-repositories", "create-repository"}
    /\ e.arg = r
    /\ e.ok

\* C22: in the build stage a create-repository directly follows a failed
\* describe-repositories for the same repository, every failed
\* describe-repositories is directly followed by the create-repository, no
\* create-repository is issued for a repository whose describe-repositories
\* succeeded, and before a docker push both blog-backend and blog-frontend
\* were found or created.
C22_RepositoriesEnsuredFirst ==
    \A p \in Procs :
        LET b == BuildLog(p)
        IN \A k \in 1..Len(b) :
             /\ b[k].call = "create-repository" =>
                   /\ k > 1
                   /\ b[k - 1].call = "describe-repositories"
                   /\ b[k - 1].arg = b[k].arg
                   /\ ~b[k - 1].ok
             /\ (b[k].call = "describe-repositories" /\ ~b[k].ok) =>
                   /\ k < Len(b)
                   /\ b[k + 1].call = "create-repository"
                   /\ b[k + 1].arg = b[k].arg
             /\ (b[k].call = "describe-repositories" /\ b[k].ok) =>
                   ~\E j \in 1..Len(b) :
                       b[j].call = "create-repository" /\ b[j].arg = b[k].arg
             /\ b[k].call = "docker push" =>
                   \A r \in {"blog-backend", "blog-frontend"} :
                       \E j \in 1..(k - 1) : Ensured(b[j], r)

\* One repository was created, the other was found, and an image is pushed.
C22_Witness ==
    /\ \E i \in Idx : log[i].call = "create-repository" /\ log[i].ok
    /\ \E i \in Idx : log[i].call = "describe-repositories" /\ log[i].ok
    /\ \E i \in Idx : log[i].call = "docker push" /\ log[i].ok


\* The repository of the account in the region of the run, by name
FixedUri(p, name) == <<accountId[p], "dkr.ecr", "us-east-1", "amazonaws.com", name>>

RunLog(p) ==
    LET Mine(e) == e.p = p
    IN SelectSeq(log, Mine)

\* C24: deploy_infrastructure is check-then-act without a lock: the request
\* a run submits is decided by its own describe-stacks alone, whatever
\* another run does to the stack in between.  In the run's own commands a
\* create-stack directly follows a describe-stacks that failed and an
\* update-stack directly follows one that succeeded.
C24_SubmitFollowsOwnObservation ==
    \A p \in Procs :
        LET r == RunLog(p)
        IN \A k \in 1..Len(r) :
             IsStackRequest(r[k]) =>
                 /\ k > 1
                 /\ r[k - 1].call = "describe-stacks"
                 /\ r[k - 1].ok = (r[k].call = "update-stack")

\* The interleaving of the claim: both runs saw the stack absent, and both
\* submitted create-stack, the second one for a stack that the first one
\* had brought into being by then.
C24_Witness ==
    \E i, j, k, l \in Idx :
        /\ i < j /\ j < k /\ k < l
        /\ log[i].call = "describe-stacks" /\ log[i].st = "absent" /\ ~log[i].ok
        /\ log[j].call = "describe-stacks" /\ log[j].st = "absent" /\ ~log[j].ok
        /\ log[i].p # log[j].p
        /\ log[k].call = "create-stack" /\ log[k].ok
        /\ log[l].call = "create-stack" /\ log[l].st = "creating"
        /\ log[k].p # log[l].p


\* C25: within one run no mutating request (create-repository, docker push,
\* create-stack, update-stack, update-service) is issued twice for the same
\* target, whether the first one was accepted or rejected; the stack is
\* the target of create-stack and update-stack alike.
C25_NoMutatingRequestTwice ==
    \A i, j \in Idx :
        (i < j /\ log[i].p = log[j].p /\ log[i].call \in Mutating /\ log[j].call \in Mutating) =>
            /\ log[i].call = log[j].call => log[i].arg # log[j].arg
            /\ ~(IsStackRequest(log[i]) /\ IsStackRequest(log[j]))

\* A rejected docker push ended the run.
C25_Witness ==
    \E i \in Idx : /\ log[i].call = "docker push"
                    /\ ~log[i].ok
                    /\ Exited(log[i].p)
                    /\ \E j \in Idx : j < i /\ log[j].call = "create-repository" /\ log[j].ok


\* C26: a probe that failed is attempted again: the warning about a path is
\* printed only after more than one attempt on that path.
C26_FailedProbeIsRetried ==
    \A i \in Idx :
        (log[i].call = "curl" /\ ~log[i].ok) =>
            \E j \in Idx : /\ j # i
                            /\ log[j].p = log[i].p
                            /\ log[j].call = "curl"
                            /\ log[j].arg = log[i].arg


\* The stage function each test is about
TestedStage(p) == IF p = 1 THEN "build" ELSE "infra"

\* The executions of the tested stage function that got to its first command
Executions(p) ==
    {i \in Idx : /\ log[i].p = p
                 /\ log[i].stage = TestedStage(p)
                 /\ log[i].call = (IF p = 1 THEN "get-login-password" ELSE "describe-stacks")}

\* The test script has ended with a non-zero status in test p.
TestAborted(p) == Exited(p) /\ exitCode[p] # 0

\* C27: in each test of test_deploy.sh the only commands issued are those
\* of the stage function under test, that function is executed at most
\* once, and no test ends the script with a non-zero status.
C27_OnlyFunctionUnderTestRuns ==
    \A p \in Procs :
        /\ \A i \in Idx : log[i].p = p => log[i].stage = TestedStage(p)
        /\ Cardinality(Executions(p)) <= 1
        /\ ~TestAborted(p)


\* C28: what follows an update-stack is decided by the captured text alone,
\* whatever the exit status.  With the no-updates marker in the text (with
\* or without "error") deploy_infrastructure returns without a wait; with
\* "error" and no marker the run ends with status 1 and the error message;
\* with neither the next command of the run is the wait for
\* stack-update-complete, and that wait is issued in no other case.
C28_TextAloneDecides ==
    \A p \in Procs :
        LET r == RunLog(p)
        IN \A k \in 1..Len(r) :
             /\ r[k].call = "update-stack" =>
                   IF Contains(r[k].text, NoUpdatesMarker)
                      THEN /\ "infra" \in Returned(p)
                           /\ k < Len(r) => r[k + 1].stage # "infra"
                   ELSE IF Contains(r[k].text, ErrorWord)
                      THEN /\ k = Len(r)
                           /\ exitCode[p] = 1
                           /\ "error: Failed to update CloudFormation stack" \in out[p]
                   ELSE IF k = Len(r)
                      THEN pc[p] = "wait_update"
                   ELSE r[k + 1].call = "wait stack-update-complete"
             /\ r[k].call = "wait stack-update-complete" =>
                   /\ k > 1
                   /\ r[k - 1].call = "update-stack"
                   /\ ~Contains(r[k - 1].text, NoUpdatesMarker)
                   /\ ~Contains(r[k - 1].text, ErrorWord)

\* An update-stack that exited non-zero with a text that has neither the
\* marker nor "error" was followed by the wait, which succeeded.
C28_Witness ==
    \E i \in Idx : /\ i < Len(log)
                    /\ log[i].call = "update-stack"
                    /\ ~log[i].ok
                    /\ Contains(log[i].text, NotConnected)
                    /\ log[i + 1].call = "wait stack-update-complete"
                    /\ log[i + 1].ok
                    /\ "infra" \in Returned(log[i].p)


\* C29: in the commands of a run, an update-service for the frontend
\* service directly follows an accepted update-service for the backend
\* service, and after a rejected name lookup or a rejected update-service
\* the run issues no further command.
C29_FrontendAfterBackendAccepted ==
    \A p \in Procs :
        LET r == RunLog(p)
        IN \A k \in 1..Len(r) :
             /\ (r[k].call = "update-service"
                    /\ r[k].arg[2] = OutputValue("create-complete", "FrontendServiceName")) =>
                   /\ k > 1
                   /\ r[k - 1].call = "update-service"
                   /\ r[k - 1].arg[2] = OutputValue("create-complete", "BackendServiceName")
                   /\ r[k - 1].ok
             /\ (r[k].stage = "app" /\ ~r[k].ok) =>
                   /\ k = Len(r)
                   /\ Exited(p) /\ exitCode[p] # 0

\* The backend request was rejected and the run has ended without a
\* request for the frontend.
C29_Witness ==
    \E i \in Idx :
        /\ log[i].call = "update-service"
        /\ log[i].arg[2] = OutputValue("create-complete", "BackendServiceName")
        /\ ~log[i].ok
        /\ Exited(log[i].p)

----------------------------------------------------------------------------
\* C30: login resolves to true only if, at that moment, a token is stored in
\* localStorage and the user has been loaded (user is not null); a login
\* whose user fetch fails does not report success.
C30_LoginTrueMeansLoggedIn ==
    [][(loginPc = "fetching" /\ loginResult' = "true")
          => (storedToken' # "" /\ user' # "")]_vars

====
